---- MODULE Spec2Model ----
(***************************************************************************)
(* Model of src/src/cursor.rs: Cursor, its Drop, the RowSetBuffer trait,   *)
(* RowSetCursor and its Drop.  The statement handle (crate::handles::      *)
(* Statement) is not part of cursor.rs; its primitives are modelled from   *)
(* the specification's description of the handle (Statement_* operators).  *)
(***************************************************************************)
EXTENDS Integers, Sequences, FiniteSets, TLC

\* ---- bounds -------------------------------------------------------------
NumCols == 1
MaxRows == 2
MaxArraySize == 1

\* ---- value sets ---------------------------------------------------------
\* what the driver can report for a call that fails on its side
Errors == {"E_driver"}
NoFault == "ok"
Faults == {NoFault} \cup Errors
\* column 0 is the bookmark column, NumCols + 1 lies beyond the result set
Columns == 0..(NumCols + 1)
\* the columns the metadata queries are asked about: one of the result set
\* and one beyond it
QueryCols == {1, NumCols + 1}
Buffers == {"bufA", "bufB"}
\* whose storage a binding points into: the caller's own, or a RowSetBuffer's
Unbound == "none"
Caller == "caller"
RowSet == "rowset"
ColumnError == "E_col"
StateError == "E_state"

Min(a, b) == IF a <= b THEN a ELSE b
CeilDiv(a, b) == (a + b - 1) \div b

VARIABLES
    stmt,        \* the statement handle owned by the Cursor
    cursor,      \* "alive" | "dropped": the Cursor value
    rscAlive,    \* number of RowSetCursor values alive on the Cursor
    rscBuf,      \* the buffer the alive RowSetCursor borrows
    panicking,   \* std::thread::panicking()
    aborted,     \* a panic was raised while already panicking
    last,        \* what the last operation was and what it returned
    hist         \* history of the run (counters the claims speak about)

vars == <<stmt, cursor, rscAlive, rscBuf, panicking, aborted, last, hist>>

\* ---- Result<T, Error> ---------------------------------------------------
Ok(v) == [tag |-> "Ok", val |-> v]
Err(e) == [tag |-> "Err", val |-> e]
IsErr(r) == r.tag = "Err"
\* `?` converts the error with From<Error> for Error, the identity on Error
From(e) == e

\* ---- the statement handle (crate::handles::Statement) -------------------
\* every primitive records the call and what it returned
Returned(s, name, r) ==
    [s EXCEPT !.calls = Append(@, name),
              !.rets = Append(@, r),
              !.afterClose = @ \/ s.nClose > 0,
              !.nClose = IF name = "close_cursor" THEN @ + 1 ELSE @]

Reply(s, name, r) == [s |-> Returned(s, name, r), r |-> r]

Statement_close_cursor(s, f) ==
    IF f # NoFault THEN Reply(s, "close_cursor", Err(f))
    ELSE Reply([s EXCEPT !.open = FALSE], "close_cursor", Ok("unit"))

\* a metadata query about column c
Statement_col_query(s, name, c, v, f) ==
    IF f # NoFault THEN Reply(s, name, Err(f))
    ELSE IF ~s.open THEN Reply(s, name, Err(StateError))
    ELSE IF c > NumCols THEN Reply(s, name, Err(ColumnError))
    ELSE Reply(s, name, Ok(v))

Statement_describe_col(s, c, f) ==
    Statement_col_query(s, "describe_col", c, "unit", f)
Statement_is_unsigned_column(s, c, f) ==
    Statement_col_query(s, "is_unsigned_column", c, "bool", f)
Statement_col_data_type(s, c, f) ==
    Statement_col_query(s, "col_data_type", c, "type", f)
Statement_col_octet_length(s, c, f) ==
    Statement_col_query(s, "col_octet_length", c, "len", f)
Statement_col_display_size(s, c, f) ==
    Statement_col_query(s, "col_display_size", c, "len", f)

Statement_num_result_cols(s, f) ==
    IF f # NoFault THEN Reply(s, "num_result_cols", Err(f))
    ELSE IF ~s.open THEN Reply(s, "num_result_cols", Err(StateError))
    ELSE Reply(s, "num_result_cols", Ok("count"))

\* the driver writes the number of rows of the row set into the registered target
WriteRows(s, k) == IF s.target THEN [s EXCEPT !.numRows = k] ELSE s

Statement_fetch(s, f) ==
    IF s.pos >= s.rows THEN Reply(WriteRows(s, 0), "fetch", Ok("false"))
    ELSE IF f # NoFault THEN Reply(s, "fetch", Err(f))
    ELSE IF \E c \in Columns : c > NumCols /\ s.bound[c] # Unbound
         THEN Reply(s, "fetch", Err(ColumnError))
    ELSE LET k == Min(s.rowArraySize, s.rows - s.pos)
         IN  Reply(WriteRows([s EXCEPT !.pos = @ + k], k), "fetch", Ok("true"))

Statement_set_row_array_size(s, size, f) ==
    IF f # NoFault THEN Reply(s, "set_row_array_size", Err(f))
    ELSE Reply([s EXCEPT !.rowArraySize = size], "set_row_array_size", Ok("unit"))

Statement_set_num_rows_fetched(s, f) ==
    IF f # NoFault THEN Reply(s, "set_num_rows_fetched", Err(f))
    ELSE Reply([s EXCEPT !.target = TRUE], "set_num_rows_fetched", Ok("unit"))

\* the orientation of the bound buffers changes nothing the handle reports
Statement_set_row_bind_type(s, row_size, f) ==
    IF f # NoFault THEN Reply(s, "set_row_bind_type", Err(f))
    ELSE Reply(s, "set_row_bind_type", Ok("unit"))

Statement_unbind_cols(s, f) ==
    IF f # NoFault THEN Reply(s, "unbind_cols", Err(f))
    ELSE Reply([s EXCEPT !.bound = [c \in Columns |-> IF c = 0 THEN @[c] ELSE Unbound]],
               "unbind_cols", Ok("unit"))

\* owner names whose storage target_value points into
Statement_bind_col(s, c, owner, f) ==
    IF f # NoFault THEN Reply(s, "bind_col", Err(f))
    ELSE Reply([s EXCEPT !.bound[c] = owner], "bind_col", Ok("unit"))

\* ---- Cursor (cursor.rs 21-176) ------------------------------------------
\* a describe_col that drops the handle's result
Cursor_describe_col_ignore(s, c, f) ==
    [s |-> Statement_describe_col(s, c, f).s, r |-> Ok("unit")]

Cursor_describe_col(s, c, f) ==
    LET h == Statement_describe_col(s, c, f)
    IN  IF IsErr(h.r) THEN [s |-> h.s, r |-> Err(From(h.r.val))]
        ELSE [s |-> h.s, r |-> Ok("unit")]

Cursor_num_result_cols(s, f) == Statement_num_result_cols(s, f)

Cursor_fetch(s, f) == Statement_fetch(s, f)

\* a set_row_array_size that never reaches the handle
Cursor_set_row_array_size_dropped(s, size, f) == [s |-> s, r |-> Ok("unit")]

Cursor_set_row_array_size(s, size, f) == Statement_set_row_array_size(s, size, f)

Cursor_set_num_rows_fetched(s, f) == Statement_set_num_rows_fetched(s, f)

Cursor_set_row_bind_type(s, row_size, f) == Statement_set_row_bind_type(s, row_size, f)

\* an unbind_cols that releases the bookmark column with the others
Cursor_unbind_cols_all(s, f) ==
    LET h == Statement_unbind_cols(s, f)
    IN  IF IsErr(h.r) THEN h
        ELSE [s |-> [h.s EXCEPT !.bound[0] = Unbound], r |-> h.r]

\* an unbind_cols that reports an error when no column is left to release
Cursor_unbind_cols_strict(s, f) ==
    IF \A c \in Columns \ {0} : s.bound[c] = Unbound
    THEN [s |-> s, r |-> Err(StateError)]
    ELSE Statement_unbind_cols(s, f)

Cursor_unbind_cols(s, f) == Statement_unbind_cols(s, f)

\* a bind_col that checks the column index against the result set itself
Cursor_bind_col_checked(s, c, owner, f) ==
    IF c > NumCols THEN [s |-> s, r |-> Err(ColumnError)]
    ELSE Statement_bind_col(s, c, owner, f)

Cursor_bind_col(s, c, owner, f) == Statement_bind_col(s, c, owner, f)

Cursor_is_unsigned_column(s, c, f) == Statement_is_unsigned_column(s, c, f)

Cursor_col_data_type(s, c, f) == Statement_col_data_type(s, c, f)

Cursor_col_octet_length(s, c, f) == Statement_col_octet_length(s, c, f)

Cursor_col_display_size(s, c, f) == Statement_col_display_size(s, c, f)

\* a drop that tries close_cursor a second time after a failure
Cursor_drop_retry(s, f, p) ==
    LET h == Statement_close_cursor(s, f)
        g == IF IsErr(h.r) THEN Statement_close_cursor(h.s, f) ELSE h
    IN  [s |-> g.s, r |-> g.r, panic |-> IsErr(g.r) /\ ~p]

\* a drop that panics without asking panicking()
Cursor_drop_unchecked(s, f, p) ==
    LET h == Statement_close_cursor(s, f)
    IN  [s |-> h.s, r |-> h.r, panic |-> IsErr(h.r)]

\* a drop that leaves the cursor open while the thread is panicking
Cursor_drop_quiet(s, f, p) ==
    IF p THEN [s |-> s, r |-> Ok("unit"), panic |-> FALSE]
    ELSE LET h == Statement_close_cursor(s, f)
         IN  [s |-> h.s, r |-> h.r, panic |-> IsErr(h.r)]

\* impl Drop for Cursor; p is panicking() at the time of the drop
Cursor_drop(s, f, p) ==
    LET h == Statement_close_cursor(s, f)
    IN  [s |-> h.s, r |-> h.r, panic |-> IsErr(h.r) /\ ~p]

\* ---- RowSetBuffer (cursor.rs 178-180) -----------------------------------
\* the columns an implementor binds, in the order it binds them
BufCols(b) == IF b = "bufA" THEN <<1>> ELSE <<1, NumCols + 1>>

\* bind_to_cursor of an implementor: bind_col per column, `?` on each;
\* fs gives the driver's outcome of each bind_col
RECURSIVE BindFrom(_, _, _, _)
BindFrom(s, b, fs, i) ==
    IF i > Len(BufCols(b)) THEN [s |-> s, r |-> Ok("unit")]
    ELSE LET h == Cursor_bind_col(s, BufCols(b)[i], RowSet, fs[i])
         IN  IF IsErr(h.r) THEN [s |-> h.s, r |-> Err(From(h.r.val))]
             ELSE BindFrom(h.s, b, fs, i + 1)

bind_to_cursor(s, b, fs) == BindFrom(s, b, fs, 1)

\* ---- Cursor::bind_row_set_buffer (cursor.rs 141-153) --------------------
Cursor_bind_row_set_buffer(s, b, fs) ==
    LET h == bind_to_cursor(s, b, fs)
    IN  IF IsErr(h.r) THEN [s |-> h.s, r |-> Err(From(h.r.val)), created |-> FALSE]
        ELSE [s |-> h.s, r |-> Ok("RowSetCursor"), created |-> TRUE]

\* ---- RowSetCursor (cursor.rs 182-211) -----------------------------------
\* a fetch with the two arms of the if exchanged
RowSetCursor_fetch_swapped(s, buffer, f) ==
    LET h == Cursor_fetch(s, f)
    IN  IF IsErr(h.r) THEN [s |-> h.s, r |-> Err(From(h.r.val))]
        ELSE IF h.r.val = "true" THEN [s |-> h.s, r |-> Ok("None")]
        ELSE [s |-> h.s, r |-> Ok(buffer)]

\* a fetch that turns an error into the end of the result set
RowSetCursor_fetch_swallow(s, buffer, f) ==
    LET h == Cursor_fetch(s, f)
    IN  IF ~IsErr(h.r) /\ h.r.val = "true" THEN [s |-> h.s, r |-> Ok(buffer)]
        ELSE [s |-> h.s, r |-> Ok("None")]

\* a fetch that releases the bindings when the result set is exhausted
RowSetCursor_fetch_release(s, buffer, f) ==
    LET h == Cursor_fetch(s, f)
    IN  IF IsErr(h.r) THEN [s |-> h.s, r |-> Err(From(h.r.val))]
        ELSE IF h.r.val = "true" THEN [s |-> h.s, r |-> Ok(buffer)]
        ELSE [s |-> Cursor_unbind_cols(h.s, NoFault).s, r |-> Ok("None")]

RowSetCursor_fetch(s, buffer, f) ==
    LET h == Cursor_fetch(s, f)
    IN  IF IsErr(h.r) THEN [s |-> h.s, r |-> Err(From(h.r.val))]
        ELSE IF h.r.val = "true" THEN [s |-> h.s, r |-> Ok(buffer)]
        ELSE [s |-> h.s, r |-> Ok("None")]

\* a drop that does nothing while the thread is panicking
RowSetCursor_drop_skip(s, f, p) ==
    IF p THEN [s |-> s, r |-> Ok("unit"), panic |-> FALSE]
    ELSE LET h == Cursor_unbind_cols(s, f)
         IN  [s |-> h.s, r |-> h.r, panic |-> IsErr(h.r) /\ ~p]

\* a drop that closes the cursor, as the Drop of Cursor does
RowSetCursor_drop_closes(s, f, p) ==
    LET h == Statement_close_cursor(s, f)
    IN  [s |-> h.s, r |-> h.r, panic |-> IsErr(h.r) /\ ~p]

\* impl Drop for RowSetCursor; p is panicking() at the time of the drop
RowSetCursor_drop(s, f, p) ==
    LET h == Cursor_unbind_cols(s, f)
    IN  [s |-> h.s, r |-> h.r, panic |-> IsErr(h.r) /\ ~p]

\* ---- borrows and ownership ----------------------------------------------
\* a Cursor that stays usable after its drop
CursorOwned_always == TRUE
\* a Cursor that is not borrowed by its RowSetCursor
CursorBorrowed_never == FALSE

\* a borrow that ends as soon as unwinding starts
CursorBorrowed_unwinding == rscAlive > 0 /\ ~panicking

\* the Cursor is a value its owner still holds: drop consumes it
CursorOwned == cursor = "alive"
\* bind_row_set_buffer takes &'r mut self and the RowSetCursor keeps it
CursorBorrowed == rscAlive > 0
\* a method can be called on the Cursor by its owner
CanUseCursor == CursorOwned /\ ~CursorBorrowed /\ ~panicking /\ ~aborted
\* methods of the RowSetCursor can be called
CanUseRowSet == cursor = "alive" /\ rscAlive > 0 /\ ~panicking /\ ~aborted

\* the handle's state without the log of the calls made to it
Core(s) ==
    [open |-> s.open, rows |-> s.rows, pos |-> s.pos, bound |-> s.bound,
     rowArraySize |-> s.rowArraySize, target |-> s.target,
     numRows |-> s.numRows, nClose |-> s.nClose]

\* the handle as an operation finds it: the per-operation call log is empty
Begin == [stmt EXCEPT !.calls = <<>>, !.rets = <<>>]

IsFetch(op) == op \in {"fetch", "RowSetCursor::fetch"}
IsDrop(op) == op \in {"Cursor::drop", "RowSetCursor::drop"}

\* the record of an operation: what it returned, whether its Drop raised a
\* panic, and the circumstances the claims speak about
\* (rscDrop: how the RowSetCursor was dropped just before this Cursor was)
Done(op, out, raised) ==
    [op |-> op, res |-> out.r, raised |-> raised,
     panicBefore |-> IsDrop(op) /\ panicking,
     exhaustedBefore |-> IsFetch(op) /\ hist.exhausted,
     afterFetchErr |-> op = "RowSetCursor::drop" /\ hist.fetchErr,
     again |-> op = "unbind_cols" /\ last.op = "unbind_cols" /\ ~IsErr(last.res),
     beyond |-> FALSE,
     rscDrop |-> IF op = "Cursor::drop" /\ last.op = "RowSetCursor::drop"
                 THEN (IF last.raised THEN "raised"
                       ELSE IF last.panicBefore THEN "unwound" ELSE "normal")
                 ELSE "none"]

\* ---- initial state: Cursor::new over an executed statement --------------
NewStatement(rows) ==
    [open |-> TRUE, rows |-> rows, pos |-> 0,
     bound |-> [c \in Columns |-> Unbound],
     rowArraySize |-> 1, target |-> FALSE, numRows |-> 0,
     calls |-> <<>>, rets |-> <<>>, nClose |-> 0, afterClose |-> FALSE]

\* the state after Cursor::new(statement), for a result set of one of the
\* given numbers of rows
InitWith(rowCounts) ==
    /\ \E rows \in rowCounts : stmt = NewStatement(rows)
    /\ cursor = "alive"
    /\ rscAlive = 0
    /\ rscBuf = Unbound
    /\ panicking = FALSE
    /\ aborted = FALSE
    /\ last = [op |-> "new", res |-> Ok("unit"), raised |-> FALSE,
               panicBefore |-> FALSE, exhaustedBefore |-> FALSE,
               afterFetchErr |-> FALSE, again |-> FALSE, beyond |-> FALSE,
               rscDrop |-> "none"]
    /\ hist = [exhausted |-> FALSE, trues |-> 0, size |-> 1, resized |-> FALSE,
               fetchErr |-> FALSE]

Init == InitWith(0..MaxRows)

\* ---- operations called on the Cursor ------------------------------------
\* effect of a fetch result on the history
FetchHist(r) ==
    [hist EXCEPT !.exhausted = @ \/ (r = Ok("false")),
                 !.trues = IF r = Ok("true") THEN @ + 1 ELSE @]

\* effect of a set_row_array_size result on the history: the size the caller
\* has set, and whether it changed it after rows had been fetched
SizeHist(r, size) ==
    IF IsErr(r) THEN hist
    ELSE [hist EXCEPT !.size = size,
                      !.resized = @ \/ (hist.trues > 0 /\ size # hist.size)]

Plain(op, out) ==
    /\ CanUseCursor
    /\ stmt' = out.s
    /\ last' = Done(op, out, FALSE)
    /\ UNCHANGED <<cursor, rscAlive, rscBuf, panicking, aborted>>

DescribeCol ==
    \E c \in QueryCols, f \in Faults :
        Plain("describe_col", Cursor_describe_col(Begin, c, f)) /\ UNCHANGED hist

NumResultCols ==
    \E f \in Faults :
        Plain("num_result_cols", Cursor_num_result_cols(Begin, f)) /\ UNCHANGED hist

Fetch ==
    \E f \in Faults :
        LET out == Cursor_fetch(Begin, f)
        IN  Plain("fetch", out) /\ hist' = FetchHist(out.r)

SetRowArraySize ==
    \E size \in 1..MaxArraySize, f \in Faults :
        LET out == Cursor_set_row_array_size(Begin, size, f)
        IN  /\ Plain("set_row_array_size", out)
            /\ hist' = SizeHist(out.r, size)

SetNumRowsFetched ==
    \E f \in Faults :
        Plain("set_num_rows_fetched", Cursor_set_num_rows_fetched(Begin, f))
        /\ UNCHANGED hist

SetRowBindType ==
    \E row_size \in 0..1, f \in Faults :
        Plain("set_row_bind_type", Cursor_set_row_bind_type(Begin, row_size, f))
        /\ UNCHANGED hist

UnbindCols ==
    \E f \in Faults :
        Plain("unbind_cols", Cursor_unbind_cols(Begin, f)) /\ UNCHANGED hist

\* the record of a bind_col notes whether its column lies beyond the result set
BindCol ==
    \E c \in Columns, f \in Faults :
        LET out == Cursor_bind_col(Begin, c, Caller, f)
        IN  /\ CanUseCursor
            /\ stmt' = out.s
            /\ last' = [Done("bind_col", out, FALSE) EXCEPT !.beyond = c > NumCols]
            /\ UNCHANGED <<cursor, rscAlive, rscBuf, panicking, aborted, hist>>

IsUnsignedColumn ==
    \E c \in QueryCols, f \in Faults :
        Plain("is_unsigned_column", Cursor_is_unsigned_column(Begin, c, f))
        /\ UNCHANGED hist

ColDataType ==
    \E c \in QueryCols, f \in Faults :
        Plain("col_data_type", Cursor_col_data_type(Begin, c, f)) /\ UNCHANGED hist

ColOctetLength ==
    \E c \in QueryCols, f \in Faults :
        Plain("col_octet_length", Cursor_col_octet_length(Begin, c, f))
        /\ UNCHANGED hist

ColDisplaySize ==
    \E c \in QueryCols, f \in Faults :
        Plain("col_display_size", Cursor_col_display_size(Begin, c, f))
        /\ UNCHANGED hist

BindRowSetBuffer ==
    \E b \in Buffers :
      \E fs \in [1..Len(BufCols(b)) -> Faults] :
        LET out == Cursor_bind_row_set_buffer(Begin, b, fs)
        IN  /\ CanUseCursor
            /\ stmt' = out.s
            /\ last' = Done("bind_row_set_buffer", out, FALSE)
            /\ rscAlive' = IF out.created THEN rscAlive + 1 ELSE rscAlive
            /\ rscBuf' = IF out.created THEN b ELSE rscBuf
            /\ UNCHANGED hist
            /\ UNCHANGED <<cursor, panicking, aborted>>

\* ---- operations called on the RowSetCursor ------------------------------
RowSetFetch ==
    \E f \in Faults :
        LET out == RowSetCursor_fetch(Begin, rscBuf, f)
        IN  /\ CanUseRowSet
            /\ stmt' = out.s
            /\ last' = Done("RowSetCursor::fetch", out, FALSE)
            /\ hist' = [FetchHist(stmt'.rets[Len(stmt'.rets)])
                            EXCEPT !.fetchErr = @ \/ IsErr(out.r)]
            /\ UNCHANGED <<cursor, rscAlive, rscBuf, panicking, aborted>>

\* the RowSetCursor goes out of scope, on a return or while unwinding
RowSetDrop ==
    \E f \in Faults :
        LET out == RowSetCursor_drop(Begin, f, panicking)
        IN  /\ cursor = "alive" /\ rscAlive > 0 /\ ~aborted
            /\ stmt' = out.s
            /\ last' = Done("RowSetCursor::drop", out, out.panic)
            /\ rscAlive' = rscAlive - 1
            /\ rscBuf' = Unbound
            /\ hist' = [hist EXCEPT !.fetchErr = FALSE]
            /\ aborted' = (aborted \/ (out.panic /\ panicking))
            /\ panicking' = (panicking \/ out.panic)
            /\ UNCHANGED cursor

\* the Cursor goes out of scope, on a return or while unwinding; a value that
\* is borrowed cannot be dropped
CursorDrop ==
    \E f \in Faults :
        LET out == Cursor_drop(Begin, f, panicking)
        IN  /\ CursorOwned /\ ~CursorBorrowed /\ ~aborted
            /\ stmt' = out.s
            /\ last' = Done("Cursor::drop", out, out.panic)
            /\ cursor' = "dropped"
            /\ aborted' = (aborted \/ (out.panic /\ panicking))
            /\ panicking' = (panicking \/ out.panic)
            /\ UNCHANGED <<rscAlive, rscBuf, hist>>

\* ---- the caller's own failures ------------------------------------------
\* a panic raised by code other than the two Drop impls: unwinding starts
ClientPanic ==
    /\ cursor = "alive" /\ ~panicking /\ ~aborted
    /\ panicking' = TRUE
    /\ UNCHANGED <<stmt, cursor, rscAlive, rscBuf, aborted, last, hist>>

\* the unwinding is caught (catch_unwind) in a frame that holds the values
\* still alive
CatchUnwind ==
    /\ cursor = "alive" /\ panicking /\ ~aborted
    /\ panicking' = FALSE
    /\ UNCHANGED <<stmt, cursor, rscAlive, rscBuf, aborted, last, hist>>

Next ==
    \/ DescribeCol
    \/ NumResultCols
    \/ Fetch
    \/ SetRowArraySize
    \/ SetNumRowsFetched
    \/ SetRowBindType
    \/ UnbindCols
    \/ BindCol
    \/ IsUnsignedColumn
    \/ ColDataType
    \/ ColOctetLength
    \/ ColDisplaySize
    \/ BindRowSetBuffer
    \/ RowSetFetch
    \/ RowSetDrop
    \/ CursorDrop
    \/ ClientPanic
    \/ CatchUnwind

Spec == Init /\ [][Next]_vars

\* ---- block fetching over larger result sets -----------------------------
\* the row-at-a-time and block-cursor scenarios: 5 and 25 rows, row sets of 10
InitBatch == InitWith((0..MaxRows) \cup {5, 25})

SetRowArraySizeTen ==
    \E f \in Faults :
        LET out == Cursor_set_row_array_size(Begin, 10, f)
        IN  Plain("set_row_array_size", out) /\ hist' = SizeHist(out.r, 10)

NextBatch ==
    \/ Fetch
    \/ SetRowArraySize
    \/ SetRowArraySizeTen
    \/ SetNumRowsFetched

SpecBatch == InitBatch /\ [][NextBatch]_vars

\* ---- properties ---------------------------------------------------------
CursorOps ==
    {"describe_col", "num_result_cols", "fetch", "set_row_array_size",
     "set_num_rows_fetched", "set_row_bind_type", "unbind_cols", "bind_col",
     "is_unsigned_column", "col_data_type", "col_octet_length",
     "col_display_size"}

\* the Cursor's state as the specification names it
CursorState == IF stmt.nClose = 0 THEN "Open" ELSE "Closed"

NoColumnBound == \A c \in Columns \ {0} : stmt.bound[c] = Unbound

\* the metadata queries succeed when the driver itself does not fail
MetadataSucceeds ==
    /\ ~IsErr(Cursor_num_result_cols(stmt, NoFault).r)
    /\ ~IsErr(Cursor_describe_col(stmt, 1, NoFault).r)
    /\ ~IsErr(Cursor_is_unsigned_column(stmt, 1, NoFault).r)
    /\ ~IsErr(Cursor_col_data_type(stmt, 1, NoFault).r)
    /\ ~IsErr(Cursor_col_octet_length(stmt, 1, NoFault).r)
    /\ ~IsErr(Cursor_col_display_size(stmt, 1, NoFault).r)

\* C1: once the Cursor has been dropped, whatever operations came before,
\* close_cursor has been issued to the handle exactly once, and the drop
\* itself issued that one call and nothing else.
C1_DropClosesOnce ==
    /\ cursor = "dropped" => stmt.nClose = 1
    /\ last.op = "Cursor::drop" => stmt.calls = <<"close_cursor">>

\* a Cursor dropped on a normal path after rows were fetched into a column
\* the caller had bound
C1_Witness ==
    /\ cursor = "dropped" /\ last.op = "Cursor::drop" /\ ~last.panicBefore
    /\ hist.trues > 0 /\ stmt.bound[1] = Caller

\* C2: the destruction of a RowSetCursor issues exactly one unbind_cols and
\* no other call, on a normal end of scope, after a fetch error and while
\* unwinding alike.
C2_DropUnbindsOnce ==
    last.op = "RowSetCursor::drop" => stmt.calls = <<"unbind_cols">>

\* a RowSetCursor destroyed by unwinding after one of its fetches had failed
C2_Witness ==
    last.op = "RowSetCursor::drop" /\ last.panicBefore /\ last.afterFetchErr

C4_CleanupFailure ==
    /\ IsDrop(last.op) => (last.raised <=> (IsErr(last.res) /\ ~last.panicBefore))
    /\ ~aborted

\* close_cursor fails in a Cursor dropped by unwinding: no panic is raised
C4_Witness ==
    last.op = "Cursor::drop" /\ IsErr(last.res) /\ last.panicBefore
    /\ ~last.raised /\ panicking

\* C5: at most one RowSetCursor is alive, and while one is alive every step
\* that reaches the handle is a fetch or the drop of that RowSetCursor,
\* issuing only fetch and unbind_cols.
C5_ExclusiveBorrow ==
    /\ [](rscAlive <= 1)
    /\ [][rscAlive >= 1 =>
            \/ stmt' = stmt /\ last' = last
            \/ /\ last'.op \in {"RowSetCursor::fetch", "RowSetCursor::drop"}
               /\ \A i \in 1..Len(stmt'.calls) :
                      stmt'.calls[i] \in {"fetch", "unbind_cols"}]_vars

\* a RowSetCursor is alive and has fetched
C5_Witness == rscAlive = 1 /\ last.op = "RowSetCursor::fetch"

\* C6: the Cursor is Open exactly while it has not been dropped, Closed is
\* reached by the close_cursor of the drop only, and no call reaches the
\* handle after a close_cursor (a second close_cursor included).
C6_OpenThenClosed ==
    /\ CursorState = "Open" <=> cursor = "alive"
    /\ last.op = "new" => CursorState = "Open"
    /\ CursorState = "Closed" => stmt.calls = <<"close_cursor">>
    /\ stmt.nClose <= 1
    /\ ~stmt.afterClose

\* a Cursor that was used, then dropped and closed
C6_Witness ==
    cursor = "dropped" /\ CursorState = "Closed" /\ ~stmt.open /\ stmt.pos > 0

C8_RowSetFetchMapping ==
    last.op = "RowSetCursor::fetch" =>
        /\ stmt.calls = <<"fetch">>
        /\ Len(stmt.rets) = 1
        /\ LET h == stmt.rets[1]
           IN  /\ h = Ok("true") => last.res = Ok(rscBuf) /\ rscBuf \in Buffers
               /\ h = Ok("false") => last.res = Ok("None")
               /\ IsErr(h) =>
                    /\ last.res = h
                    /\ rscAlive = 1
                    /\ \A i \in 1..Len(BufCols(rscBuf)) :
                           stmt.bound[BufCols(rscBuf)[i]] = RowSet

\* a fetch through the RowSetCursor that the handle answered with an error
C8_Witness ==
    last.op = "RowSetCursor::fetch" /\ IsErr(last.res) /\ rscAlive = 1

\* C9: each Cursor method issues one call, to the primitive of its own name,
\* and returns what that call returned.
C9_OneCallSameResult ==
    last.op \in CursorOps =>
        stmt.calls = <<last.op>> /\ stmt.rets = <<last.res>>

\* a metadata query about a column beyond the result set returns the
\* handle's error
C9_Witness == last.op = "describe_col" /\ last.res = Err(ColumnError)

\* C10: while the row array size n is not changed between fetches, fetch
\* returns true ceil(R / n) times, errors only before that, then false, and
\* the k-th true fetch reports min(n, R - (k - 1) * n) rows.
C10_RowSets ==
    ~hist.resized =>
        LET n == hist.size
            R == stmt.rows
            full == CeilDiv(R, n)
            k == hist.trues
        IN  /\ k <= full
            /\ (IsFetch(last.op) /\ IsErr(last.res)) => k < full
            /\ (IsFetch(last.op) /\ last.res \in {Ok("false"), Ok("None")})
                   => k = full
            /\ (IsFetch(last.op) /\ last.res = Ok("true") /\ stmt.target)
                   => stmt.numRows = Min(n, R - (k - 1) * n)

\* 25 rows in row sets of 10: the third fetch returns true and reports 5 rows
C10_Witness ==
    /\ stmt.rows = 25 /\ hist.size = 10 /\ ~hist.resized
    /\ last.op = "fetch" /\ last.res = Ok("true")
    /\ hist.trues = 3 /\ stmt.target /\ stmt.numRows = 5

\* C11: unbind_cols on an Open Cursor is refused for no reason of the
\* Cursor's own (it returns Ok unless the driver fails), also after the fetch
\* loop has ended, and a second unbind_cols right after a successful one
\* returns the same and leaves the handle as the first call left it: Open, no
\* column other than the bookmark bound, the row position unchanged.
C11_UnbindIdempotent ==
    /\ [](last.op = "unbind_cols" =>
            /\ last.res \in {Ok("unit"), Err("E_driver")}
            /\ CursorState = "Open" /\ stmt.open
            /\ ~IsErr(last.res) => NoColumnBound)
    /\ [][last'.again =>
            /\ Core(stmt') = Core(stmt)
            /\ NoColumnBound' /\ stmt'.pos = stmt.pos]_vars

\* a second unbind_cols in a row succeeds after the fetch loop has ended
C11_Witness ==
    /\ last.op = "unbind_cols" /\ last.again /\ ~IsErr(last.res)
    /\ hist.exhausted /\ hist.trues > 0 /\ stmt.bound[0] = Caller

\* C12: an unbind_cols, called on the Cursor or issued by the destruction of
\* a RowSetCursor, leaves the binding of column 0 as it was, and when it
\* returns Ok no column of index 1 or more is bound, whatever was bound before.
C12_BookmarkKept ==
    [][last'.op \in {"unbind_cols", "RowSetCursor::drop"} =>
          /\ stmt'.bound[0] = stmt.bound[0]
          /\ ~IsErr(last'.res) => NoColumnBound']_vars

\* the destruction of a RowSetCursor has released its columns and the
\* bookmark column is still bound to the caller's buffer
C12_Witness ==
    /\ last.op = "RowSetCursor::drop" /\ ~IsErr(last.res)
    /\ stmt.bound[0] = Caller /\ NoColumnBound

\* a column beyond the result set is bound
BeyondBound == \E c \in Columns : c > NumCols /\ stmt.bound[c] # Unbound

\* bind_col does not look at the column index: for a column beyond the
\* result set it returns Ok, the binding recorded, unless the driver fails
BindColAccepts ==
    (last.op = "bind_col" /\ last.beyond) =>
        /\ last.res \in {Ok("unit"), Err("E_driver")}
        /\ ~IsErr(last.res) => stmt.bound[NumCols + 1] = Caller

RowSetBound == \E c \in Columns : stmt.bound[c] = RowSet

\* C14: when bind_to_cursor fails inside bind_row_set_buffer, the call
\* returns that error, no RowSetCursor exists, and no column is left bound to
\* the buffer's storage; in general no column is bound to a RowSetBuffer's
\* storage while no RowSetCursor is alive.
C14_NoLeftoverBinding ==
    /\ (last.op = "bind_row_set_buffer" /\ IsErr(last.res)) =>
          /\ last.res = stmt.rets[Len(stmt.rets)]
          /\ rscAlive = 0
          /\ ~RowSetBound
    /\ rscAlive = 0 => ~RowSetBound

\* C15: on every path to the destruction of a Cursor, the paths included on
\* which a RowSetCursor was dropped by unwinding and on which the unbind_cols
\* of a RowSetCursor's drop failed and raised a panic, close_cursor is issued
\* exactly once, by the drop of the Cursor, and a close_cursor that fails while
\* the thread is panicking raises no second panic.
C15_CloseOnEveryPath ==
    /\ cursor = "dropped" => stmt.nClose = 1 /\ rscAlive = 0
    /\ cursor = "alive" => stmt.nClose = 0
    /\ (last.op = "Cursor::drop" /\ last.rscDrop \in {"raised", "unwound"}) =>
          stmt.calls = <<"close_cursor">>
    /\ (last.op = "Cursor::drop" /\ last.panicBefore) =>
          ~last.raised /\ ~aborted /\ panicking

\* the unbind_cols of a RowSetCursor's drop failed and raised a panic, and the
\* close_cursor of the Cursor dropped by that unwinding failed as well
C15_Witness ==
    /\ last.op = "Cursor::drop" /\ last.rscDrop = "raised" /\ last.panicBefore
    /\ IsErr(last.res) /\ stmt.nClose = 1 /\ ~aborted

\* C16: close_cursor is never issued while a RowSetCursor is alive: the
\* unbind_cols of a RowSetCursor's drop reaches a handle that no close_cursor
\* has reached, the close_cursor of the Cursor's drop is issued in a later
\* step, and no RowSetCursor is alive before or after that step.
C16_UnbindBeforeClose ==
    /\ [](rscAlive > 0 => stmt.nClose = 0 /\ cursor = "alive")
    /\ [](last.op = "RowSetCursor::drop" =>
            stmt.calls = <<"unbind_cols">> /\ stmt.nClose = 0)
    /\ [](last.rscDrop # "none" =>
            stmt.calls = <<"close_cursor">> /\ stmt.nClose = 1)
    /\ [][stmt'.nClose # stmt.nClose =>
            /\ rscAlive = 0 /\ rscAlive' = 0
            /\ \A i \in 1..Len(stmt'.calls) : stmt'.calls[i] # "unbind_cols"]_vars

\* a RowSetCursor was dropped at the end of its scope and the Cursor right
\* after it
C16_Witness ==
    /\ last.op = "Cursor::drop" /\ last.rscDrop = "normal"
    /\ stmt.nClose = 1 /\ rscAlive = 0 /\ hist.trues > 0

\* the columns bind_to_cursor of a buffer binds
BufColSet(b) == {BufCols(b)[i] : i \in 1..Len(BufCols(b))}

\* what the bindings are while a RowSetCursor is alive: every column its
\* buffer binds is bound to that buffer's storage
InstalledBound ==
    rscAlive > 0 => \A c \in BufColSet(rscBuf) : stmt.bound[c] = RowSet

\* the bound columns are the columns of the buffer and no others
OnlyInstalledBound ==
    rscAlive > 0 =>
        {c \in Columns : stmt.bound[c] # Unbound} = BufColSet(rscBuf)

\* RowSetCursor::fetch issues neither bind_col nor unbind_cols, whatever it
\* returns; while the RowSetCursor stays alive no binding changes, and a
\* binding that changes is removed by the drop of the RowSetCursor
BindingsFramed ==
    /\ [](last.op = "RowSetCursor::fetch" =>
            /\ last.res \in {Ok(rscBuf), Ok("None"), Err("E_driver"), Err(ColumnError)}
            /\ \A i \in 1..Len(stmt.calls) :
                   stmt.calls[i] \notin {"bind_col", "unbind_cols"})
    /\ [][(rscAlive > 0 /\ rscAlive' > 0) => stmt'.bound = stmt.bound]_vars
    /\ [][(rscAlive > 0 /\ stmt'.bound # stmt.bound) =>
            /\ last'.op = "RowSetCursor::drop" /\ rscAlive' = 0
            /\ \A c \in Columns :
                   stmt'.bound[c] \in {stmt.bound[c], Unbound}]_vars

\* C17 as stated: while a RowSetCursor is alive the columns bound on its
\* Cursor are exactly those bind_to_cursor installed at creation, fetch issues
\* no bind_col and no unbind_cols, and only the destruction removes bindings.
C17_Original == []InstalledBound /\ []OnlyInstalledBound /\ BindingsFramed

\* C17 amended: while a RowSetCursor is alive the bindings on its Cursor are
\* those it had when bind_row_set_buffer returned (the ones bind_to_cursor
\* installed, and any binding the Cursor held before and bind_to_cursor did
\* not replace); fetch issues no bind_col and no unbind_cols, and only the
\* destruction removes bindings.
C17_Amended == []InstalledBound /\ BindingsFramed

\* rows had been fetched and the caller had bound the bookmark column when a
\* RowSetCursor over the two-column buffer was created; its fetch has
\* returned an error and it is still alive
C17_Witness ==
    /\ rscAlive = 1 /\ rscBuf = "bufB" /\ stmt.bound[0] = Caller
    /\ last.op = "RowSetCursor::fetch" /\ IsErr(last.res) /\ hist.trues > 0

====
